---- MODULE Spec2Model ----
(***************************************************************************)
(* The sysfs address-translation driver                                    *)
(*   src/solutions_to_assgn/ch12/sysfs_addrxlate/sysfs_addrxlate.c         *)
(* as a state machine: two sysfs files (addrxlate_kva2pa, addrxlate_pa2kva)*)
(* each with a show and a store callback, two mutexes (mtx1, mtx2) and two *)
(* cached translated addresses.  Callers are concurrent kernel threads     *)
(* that enter the callbacks on behalf of user-space read(2)/write(2).      *)
(*                                                                         *)
(* The debug_level file of the simple sysfs driver                         *)
(*   src/ch13/sysfs_simple_intf/sysfs_simple_intf.c                        *)
(* is modelled beside it: its show and store callbacks, the mutex mtx and  *)
(* the global debug_level.                                                 *)
(*                                                                         *)
(* Text is a sequence of one-character strings; NUL stands for the byte 0. *)
(* Addresses are HexDigits hex digits wide (the source has 8 or 16, by     *)
(* BITS_PER_LONG); arithmetic is modulo 16^HexDigits.                      *)
(***************************************************************************)
EXTENDS Integers, Sequences, FiniteSets, TLC

\* ------------------------------------------------------------- bounds
\* Number of concurrent callers of the sysfs callbacks.
NumCallers == 2
\* Width of addr_t in hex digits (FMTSPC's field width).
HexDigits == 2
\* Width of int in bits (the source has 32).
IntBits == 8

\* --------------------------------------------------- program constants
ADDR_MAXLEN == 20
EINVAL == 22
EFAULT == 14
ERANGE == 34
ERESTARTSYS == 512
ENOMEM == 12
DEBUG_LEVEL_MIN == 0
DEBUG_LEVEL_MAX == 2
\* The longest write llkdsysfs_debug_level_store accepts, and the size its
\* show passes to snprintf.
DBG_COUNT_MAX == 12
DBG_SHOW_SIZE == 25

NUL == "NUL"
NL == "\n"

Callers == 1..NumCallers

\* ---------------------------------------------------------- arithmetic
RECURSIVE Pow(_, _)
Pow(b, e) == IF e = 0 THEN 1 ELSE b * Pow(b, e - 1)

Min(a, b) == IF a < b THEN a ELSE b

\* Number of values of addr_t: arithmetic on addresses wraps at this.
AddrSpace == Pow(16, HexDigits)
ULLONG_MAX == AddrSpace - 1

\* The kernel's split: the base of the direct-mapped lowmem region, and the
\* first address above it (3/4 of the address space, as in the 3G/1G split).
PAGE_OFFSET == 12 * Pow(16, HexDigits - 1)
high_memory == PAGE_OFFSET + 3 * Pow(16, HexDigits - 1)

\* ---------------------------------------------------------------- text
HexChars == <<"0", "1", "2", "3", "4", "5", "6", "7",
              "8", "9", "a", "b", "c", "d", "e", "f">>

\* _parse_integer: the value of a character as a digit, 99 when it is none.
DigitVal(c) ==
    IF \E i \in 1..16 : HexChars[i] = c
    THEN (CHOOSE i \in 1..16 : HexChars[i] = c) - 1
    ELSE 99

\* The digits of v in base 16, most significant first, at least one.
RECURSIVE HexOf(_)
HexOf(v) == IF v < 16 THEN <<HexChars[v + 1]>>
            ELSE Append(HexOf(v \div 16), HexChars[(v % 16) + 1])

RECURSIVE Zeros(_)
Zeros(n) == IF n <= 0 THEN <<>> ELSE <<"0">> \o Zeros(n - 1)

\* printf's %0<HexDigits>x: zero-padded to the field width, never cut.
FMTSPC(v) == Zeros(HexDigits - Len(HexOf(v))) \o HexOf(v)

\* The format "0x%x\n": no zero padding.
snprintf_nopad(size, v) ==
    LET whole == <<"0", "x">> \o HexOf(v) \o <<NL>>
    IN [text |-> SubSeq(whole, 1, Min(Len(whole), size - 1)),
        n    |-> Len(whole)]

\* snprintf(buf, size, "0x" FMTSPC "\n", v): the text left in buf (at most
\* size-1 characters) and the returned length (that of the whole text).
snprintf(size, v) ==
    LET whole == <<"0", "x">> \o FMTSPC(v) \o <<NL>>
    IN [text |-> SubSeq(whole, 1, Min(Len(whole), size - 1)),
        n    |-> Len(whole)]

\* The C string starting at the head of a byte sequence: up to the first NUL.
RECURSIVE CStr(_)
CStr(bytes) ==
    IF bytes = <<>> \/ Head(bytes) = NUL THEN <<>>
    ELSE <<Head(bytes)>> \o CStr(Tail(bytes))

RECURSIVE Nuls(_)
Nuls(n) == IF n <= 0 THEN <<>> ELSE <<NUL>> \o Nuls(n - 1)

\* memset(s_addr, 0, ADDR_MAXLEN); strncpy(s_addr, buf, ADDR_MAXLEN): the
\* ADDR_MAXLEN bytes of s_addr afterwards.  No NUL is stored when the string
\* in buf has ADDR_MAXLEN characters or more.
strncpy(buf, n) ==
    LET s == CStr(buf)
        k == Min(Len(s), n)
    IN SubSeq(s, 1, k) \o Nuls(n - k)

\* The stack bytes that follow s_addr, up to the first zero byte.  strlen and
\* kstrtoull run into them when s_addr holds no NUL, which is when the bytes
\* written begin with ADDR_MAXLEN bytes that are not NUL (a read past the
\* array: undefined behaviour, so every such content is possible); they are
\* never looked at otherwise.
StackTails(data) ==
    IF Len(data) >= ADDR_MAXLEN /\ \A i \in 1..ADDR_MAXLEN : data[i] # NUL
    THEN {<<>>, <<"z">>, <<"z", "z">>, <<"1", "z">>}
    ELSE {<<>>}

\* s_addr[strlen(s_addr) - 1] = '\0' on the memory s_addr ++ tail ++ NUL:
\* idx is the index written (-1: the byte below the array), str the C string
\* that starts at s_addr afterwards.
strip_last(s_addr, tail) ==
    LET mem == s_addr \o tail \o <<NUL>>
        idx == Len(CStr(mem)) - 1
    IN [idx |-> idx,
        str |-> IF idx < 0 THEN CStr(mem)
                ELSE CStr([mem EXCEPT ![idx + 1] = NUL])]

\* kstrtoull called with base 10 instead of 0.
fixup_radix_base10(s) == 10

\* _parse_integer_fixup_radix with base 0: a leading "0x" before a hex digit
\* selects 16, any other leading "0" selects 8, everything else 10.
fixup_radix(s) ==
    IF Len(s) >= 1 /\ s[1] = "0"
    THEN IF Len(s) >= 3 /\ s[2] = "x" /\ DigitVal(s[3]) < 16
         THEN 16 ELSE 8
    ELSE 10

\* _parse_integer: consume digits of the base from position i on.  rv is the
\* number of characters consumed, res the value modulo the width, ovf whether
\* the value left the width (KSTRTOX_OVERFLOW).
RECURSIVE parse_integer(_, _, _, _, _)
parse_integer(s, base, i, res, ovf) ==
    IF i > Len(s) \/ DigitVal(s[i]) >= base
    THEN [rv |-> i - 1, res |-> res, ovf |-> ovf]
    ELSE LET v == res * base + DigitVal(s[i])
         IN parse_integer(s, base, i + 1, v % AddrSpace,
                          ovf \/ v > ULLONG_MAX)

\* kstrtoull(s, 0, &res) (kstrtoul on 32 bit): err is 0 and val the value, or
\* err is -ERANGE (overflow) or -EINVAL (no digit, or anything but one
\* newline after the digits).
kstrtoull(s) ==
    LET s1   == IF Len(s) >= 1 /\ s[1] = "+" THEN Tail(s) ELSE s
        base == fixup_radix(s1)
        s2   == IF base = 16 THEN SubSeq(s1, 3, Len(s1)) ELSE s1
        r    == parse_integer(s2, base, 1, 0, FALSE)
        rest == SubSeq(s2, r.rv + 1, Len(s2))
        end  == IF rest # <<>> /\ rest[1] = NL THEN Tail(rest) ELSE rest
    IN IF r.ovf THEN [err |-> -ERANGE, val |-> 0]
       ELSE IF r.rv = 0 THEN [err |-> -EINVAL, val |-> 0]
       ELSE IF end # <<>> THEN [err |-> -EINVAL, val |-> 0]
       ELSE [err |-> 0, val |-> r.res]

\* The largest int.
INT_MAX == Pow(2, IntBits - 1) - 1

\* The digits of v >= 0 in base 10, most significant first, at least one.
RECURSIVE DecOf(_)
DecOf(v) == IF v < 10 THEN <<HexChars[v + 1]>>
            ELSE Append(DecOf(v \div 10), HexChars[(v % 10) + 1])

\* snprintf(buf, size, "%d\n", v): the text left in buf and the returned
\* length.
snprintf_d(size, v) ==
    LET whole == (IF v < 0 THEN <<"-">> \o DecOf(-v) ELSE DecOf(v)) \o <<NL>>
    IN [text |-> SubSeq(whole, 1, Min(Len(whole), size - 1)),
        n    |-> Len(whole)]

\* _parse_integer on a string of at most DBG_COUNT_MAX characters, which
\* cannot leave unsigned long long: rv is the number of characters consumed,
\* res the value, exact up to INT_MAX + 1 and INT_MAX + 2 for all above.
RECURSIVE parse_integer_small(_, _, _, _)
parse_integer_small(s, base, i, res) ==
    IF i > Len(s) \/ DigitVal(s[i]) >= base
    THEN [rv |-> i - 1, res |-> res]
    ELSE parse_integer_small(s, base, i + 1,
                             Min(res * base + DigitVal(s[i]), INT_MAX + 2))

\* _kstrtoull(s, 0, &res) on such a string: -EINVAL for no digit or for
\* anything but one newline after the digits.
kstrtoull_small(s) ==
    LET base == fixup_radix(s)
        s2   == IF base = 16 THEN SubSeq(s, 3, Len(s)) ELSE s
        r    == parse_integer_small(s2, base, 1, 0)
        rest == SubSeq(s2, r.rv + 1, Len(s2))
        end  == IF rest # <<>> /\ rest[1] = NL THEN Tail(rest) ELSE rest
    IN IF r.rv = 0 THEN [err |-> -EINVAL, val |-> 0]
       ELSE IF end # <<>> THEN [err |-> -EINVAL, val |-> 0]
       ELSE [err |-> 0, val |-> r.res]

\* kstrtoint(s, 0, &res): kstrtoll takes a leading "-" (or, through
\* kstrtoull, a leading "+"), and a value that does not fit int is -ERANGE.
\* val is what is written to *res, which happens only when err is 0.
kstrtoint(s) ==
    LET neg == Len(s) >= 1 /\ s[1] = "-"
        s1  == IF Len(s) >= 1 /\ s[1] \in {"-", "+"} THEN Tail(s) ELSE s
        r   == kstrtoull_small(s1)
    IN IF r.err # 0 THEN r
       ELSE IF neg /\ r.val <= INT_MAX + 1 THEN [err |-> 0, val |-> -r.val]
       ELSE IF ~neg /\ r.val <= INT_MAX THEN r
       ELSE [err |-> -ERANGE, val |-> 0]

\* ----------------------------------------------- kernel address macros
\* phys_to_virt / virt_to_phys on the direct map (what the MANUALLY branch
\* of the source recomputes): adding or subtracting PAGE_OFFSET, in addr_t.
phys_to_virt(pa) == (pa + PAGE_OFFSET) % AddrSpace
virt_to_phys(kva) == (kva + AddrSpace - PAGE_OFFSET) % AddrSpace

\* virt_addr_valid (CONFIG_X86): the address is in the direct map of RAM.
virt_addr_valid(kva) == kva >= PAGE_OFFSET /\ kva < high_memory

\* The count check of both store callbacks.
count_invalid(count) == count = 0 \/ count > ADDR_MAXLEN

\* addrxlate_pa2kva_store's validity check: TRUE when the pa is refused.
pa_invalid(pa) == pa > PAGE_OFFSET

\* The lower bound tested with <=.
kva_invalid_low(kva, x86) ==
    IF x86 THEN ~(kva > PAGE_OFFSET /\ kva < high_memory)
    ELSE (kva <= PAGE_OFFSET) \/ (kva > high_memory)

\* addrxlate_kva2pa_store's validity check (valid = 0), by build.
kva_invalid(kva, x86) ==
    IF x86 THEN ~virt_addr_valid(kva)
    ELSE (kva < PAGE_OFFSET) \/ (kva > high_memory)

\* --------------------------------------------------- the store callbacks
\* What a store callback does between taking its mutex and returning, as a
\* function of the bytes written (count = Len(data); sysfs hands the callback
\* a buffer holding them followed by a NUL) and of the stack bytes above
\* s_addr: the value returned, whether the mutex is released on the way out,
\* whether the cached address is written and with what, and the index the
\* strip wrote at.  The stray write at index -1 happens only when s_addr is
\* empty, and then kstrtoull fails whatever local the write clobbered.
store_outcome(ret, unlock, write, val, idx, addr) ==
    [ret |-> ret, unlock |-> unlock, write |-> write, val |-> val,
     idx |-> idx, addr |-> addr]

\* The one element of a singleton set.  {F(x) : x \in {e}} evaluates e once
\* and F on its value; the bodies below are written that way.
The(S) == CHOOSE x \in S : TRUE

\* addrxlate_pa2kva_store translating and caching before the validity check.
pa2kva_store_checks_early(count, s, k) ==
    IF count_invalid(count)
    THEN store_outcome(-EINVAL, TRUE, FALSE, 0, s.idx, -1)
    ELSE IF k.err < 0
    THEN store_outcome(k.err, TRUE, FALSE, 0, s.idx, -1)
    ELSE IF pa_invalid(k.val)
    THEN store_outcome(-EFAULT, FALSE, TRUE, phys_to_virt(k.val), s.idx, k.val)
    ELSE store_outcome(count, TRUE, TRUE, phys_to_virt(k.val), s.idx, k.val)

\* addrxlate_pa2kva_store after the strip (s) and after kstrtoull (k).
pa2kva_store_checks(count, s, k) ==
    IF count_invalid(count)
    THEN store_outcome(-EINVAL, TRUE, FALSE, 0, s.idx, -1)      \* goto out
    ELSE IF k.err < 0
    THEN store_outcome(k.err, TRUE, FALSE, 0, s.idx, -1)        \* unlock, return
    ELSE IF pa_invalid(k.val)
    THEN store_outcome(-EFAULT, FALSE, FALSE, 0, s.idx, -1)     \* return
    ELSE store_outcome(count, TRUE, TRUE, phys_to_virt(k.val), s.idx, k.val)

pa2kva_store_body(data, tail) ==
    The({ The({ The({ pa2kva_store_checks(Len(data), s, k)
                      : k \in {kstrtoull(s.str)} })
                : s \in {strip_last(s_addr, tail)} })
          : s_addr \in {strncpy(data \o <<NUL>>, ADDR_MAXLEN)} })

\* addrxlate_kva2pa_store returning -EINVAL for every failure of kstrtoull.
kva2pa_store_checks_einval(count, s, k, x86) ==
    IF count_invalid(count)
    THEN store_outcome(-EINVAL, TRUE, FALSE, 0, s.idx, -1)
    ELSE IF k.err < 0
    THEN store_outcome(-EINVAL, TRUE, FALSE, 0, s.idx, -1)
    ELSE IF kva_invalid(k.val, x86)
    THEN store_outcome(-EFAULT, FALSE, FALSE, 0, s.idx, -1)
    ELSE store_outcome(count, TRUE, TRUE, virt_to_phys(k.val), s.idx, k.val)

\* addrxlate_kva2pa_store after the strip (s) and after kstrtoull (k).
kva2pa_store_checks(count, s, k, x86) ==
    IF count_invalid(count)
    THEN store_outcome(-EINVAL, TRUE, FALSE, 0, s.idx, -1)      \* goto out
    ELSE IF k.err < 0
    THEN store_outcome(k.err, TRUE, FALSE, 0, s.idx, -1)        \* unlock, return
    ELSE IF kva_invalid(k.val, x86)
    THEN store_outcome(-EFAULT, FALSE, FALSE, 0, s.idx, -1)     \* return
    ELSE store_outcome(count, TRUE, TRUE, virt_to_phys(k.val), s.idx, k.val)

kva2pa_store_body(data, tail, x86) ==
    The({ The({ The({ kva2pa_store_checks(Len(data), s, k, x86)
                      : k \in {kstrtoull(s.str)} })
                : s \in {strip_last(s_addr, tail)} })
          : s_addr \in {strncpy(data \o <<NUL>>, ADDR_MAXLEN)} })

\* The files of sysfs_addrxlate, and the mutex the callbacks of each file
\* take; the callbacks of sysfs_simple_intf's debug_level file take mtx.
Files == {"kva2pa", "pa2kva"}

\* Both files' callbacks taking mtx1.
MutexOf_shared(file) == "mtx1"

MutexOf(file) ==
    IF file = "kva2pa" THEN "mtx1"
    ELSE IF file = "pa2kva" THEN "mtx2"
    ELSE "mtx"

\* ---------------------------------------------------------------- state
VARIABLES
    mtx,            \* mtx1, mtx2: the caller holding the mutex, 0 when free
    gxlated_addr,   \* gxlated_addr_kva2pa, gxlated_addr_pa2kva
    config_x86,     \* whether the build has CONFIG_X86
    call,           \* per caller: the callback it is in and where
    stored,         \* per file: the address last stored with success, -1 if none
    mod,            \* per module: how far its init or cleanup has come
    debug_level,    \* sysfs_simple_intf: the driver's debug level
    prev_dbglevel   \* per caller: prev_dbglevel of the store callback it
                    \* is in, 0 when its frame is gone

\* The state of sysfs_simple_intf's debug_level channel.
dbgvars == <<debug_level, prev_dbglevel>>

vars == <<mtx, gxlated_addr, config_x86, call, stored, mod, debug_level,
          prev_dbglevel>>

\* The text a read of the file returns for a cached value v.
Txt(v) == snprintf(ADDR_MAXLEN, v).text

\* The addresses of the direct-mapped lowmem region.
Lowmem == PAGE_OFFSET..(high_memory - 1)

\* History of a caller, kept for the properties of sequential use (no action
\* reads it to decide what the driver does): pre, the cached address of the
\* file when the call was made; after, whether the caller's previous call was
\* a store to the same file that returned an error, and X, the cached address
\* before that store; stage and v, how far the caller is in the chain write
\* kva2pa, read kva2pa, write the text read to pa2kva, read pa2kva, and the
\* address it began with; shown, per file, the text the caller's last show of
\* it returned since the caller's last store to it that returned success (the
\* empty text if there was no such show).
NoHist == [pre |-> 0, after |-> FALSE, X |-> 0, stage |-> 0, v |-> 0,
           shown |-> [f \in Files |-> <<>>]]

\* The address whose text (as a read returns it: 0x, HexDigits digits, a
\* newline) is data, -1 if data is no such text.
RECURSIVE HexVal(_, _)
HexVal(digits, acc) ==
    IF digits = <<>> THEN acc
    ELSE IF DigitVal(Head(digits)) > 15 THEN -1
    ELSE HexVal(Tail(digits), 16 * acc + DigitVal(Head(digits)))

AddrOfText(data) ==
    IF Len(data) = HexDigits + 3 /\ data[1] = "0" /\ data[2] = "x"
       /\ data[Len(data)] = NL
    THEN HexVal(SubSeq(data, 3, Len(data) - 1), 0)
    ELSE -1

\* What a call carries in place of its history where none is kept (the
\* specifications of concurrent callers).
Dropped == <<>>

NextStage(prev, file, op, data) ==
    IF file = "kva2pa" /\ op = "store" /\ AddrOfText(data) \in Lowmem
    THEN 1
    ELSE IF prev.pc = "ret" /\ prev.ret >= 0 /\ prev.h.stage = 1
            /\ file = "kva2pa" /\ op = "show"
    THEN 2
    ELSE IF prev.pc = "ret" /\ prev.ret >= 0 /\ prev.h.stage = 2
            /\ file = "pa2kva" /\ op = "store" /\ data = prev.text
    THEN 3
    ELSE IF prev.pc = "ret" /\ prev.ret >= 0 /\ prev.h.stage = 3
            /\ file = "pa2kva" /\ op = "show"
    THEN 4
    ELSE 0

Hist(prev, file, op, data) ==
    LET aft == /\ op = "show" /\ prev.pc = "ret" /\ prev.op = "store"
               /\ prev.file = file /\ prev.ret < 0
        st  == NextStage(prev, file, op, data)
    IN [pre |-> gxlated_addr[file],
        after |-> aft, X |-> IF aft THEN prev.h.pre ELSE 0,
        stage |-> st,
        v |-> IF st = 1 THEN AddrOfText(data)
              ELSE IF st > 1 THEN prev.h.v ELSE 0,
        shown |-> IF prev.pc = "ret" /\ prev.op = "show" /\ prev.ret >= 0
                  THEN [prev.h.shown EXCEPT ![prev.file] = prev.text]
                  ELSE IF prev.pc = "ret" /\ prev.op = "store"
                          /\ prev.ret = Len(prev.data) /\ prev.ret > 0
                  THEN [prev.h.shown EXCEPT ![prev.file] = <<>>]
                  ELSE prev.h.shown]

\* pc: "idle" (never called), "lock" (in mutex_lock_interruptible), "cs"
\* (holds the mutex, body not run), "ret" (returned; ret and text are the
\* results, idx the index the store's strip wrote at).
Idle == [pc |-> "idle", file |-> "kva2pa", op |-> "show", data |-> <<>>,
         ret |-> 0, text |-> <<>>, idx |-> 0, h |-> NoHist]

\* ------------------------------------------------- module init and exit
\* The two modules and the sysfs files each creates, numbered in the order
\* of creation: sysfs_addrxlate has addrxlate_kva2pa (1) and addrxlate_pa2kva
\* (2); sysfs_simple_intf has llkdsysfs_debug_level (1), llkdsysfs_pgoff (2)
\* and llkdsysfs_pressure (3).  0 stands for the platform device.
Modules == {"sysfs_addrxlate", "sysfs_simple_intf"}
NumFiles(m) == IF m = "sysfs_addrxlate" THEN 2 ELSE 3

\* Every label of the unwinding removing the first file.
OutRemoves_first(m, label) == 1

\* The file removed at the labels out3 and out4 of init (out2 unregisters the
\* device, out1 returns).
OutRemoves(m, label) ==
    IF m = "sysfs_addrxlate" THEN 1           \* out3: SYSFS_FILE1
    ELSE IF label = 4 THEN 2                  \* out4: llkdsysfs_pgoff
    ELSE 1                                    \* out3: SYSFS_FILE1

\* The files in the order cleanup removes them.
CleanupOrder(m) ==
    IF m = "sysfs_addrxlate" THEN <<2, 1>> ELSE <<3, 2, 1>>

\* pc: "unloaded", "register", "create", "out" (init unwinding at the label
\* out<at>), "failed" (init returned stat < 0), "loaded" (init returned 0),
\* "cleanup".  dev: the platform device is registered; files: the attribute
\* files that exist; made: what init created, in order; log: what was removed
\* since, in order; at: the file to create, the label, or the place in
\* CleanupOrder.
Unloaded == [pc |-> "unloaded", dev |-> FALSE, files |-> {}, made |-> <<>>,
             log |-> <<>>, stat |-> 0, at |-> 0]
Loaded(m) == [pc |-> "loaded", dev |-> TRUE, files |-> 1..NumFiles(m),
              made |-> [i \in 1..(NumFiles(m) + 1) |-> i - 1],
              log |-> <<>>, stat |-> 0, at |-> 0]

device_remove_file(r, k) ==
    [r EXCEPT !.files = r.files \ {k}, !.log = Append(r.log, k)]
platform_device_unregister(r) ==
    [r EXCEPT !.dev = FALSE, !.log = Append(r.log, 0)]

\* insmod: init starts; without CONFIG_SYSFS it returns -EINVAL at once.
module_init(m) ==
    /\ mod[m].pc \in {"unloaded", "failed"}
    /\ \E sysfs \in BOOLEAN :
          mod' = [mod EXCEPT ![m] =
                    IF sysfs THEN [Unloaded EXCEPT !.pc = "register"]
                    ELSE [Unloaded EXCEPT !.pc = "failed", !.stat = -EINVAL]]
    /\ UNCHANGED <<mtx, gxlated_addr, config_x86, call, stored, dbgvars>>

\* Step 0 of init: the device is registered, or goto out1 with the error.
platform_device_register_simple(m) ==
    /\ mod[m].pc = "register"
    /\ \E ok \in BOOLEAN :
          mod' = [mod EXCEPT ![m] =
                    IF ok THEN [@ EXCEPT !.dev = TRUE, !.made = <<0>>,
                                         !.pc = "create", !.at = 1]
                    ELSE [@ EXCEPT !.stat = -ENOMEM, !.pc = "out", !.at = 1]]
    /\ UNCHANGED <<mtx, gxlated_addr, config_x86, call, stored, dbgvars>>

\* Steps 1.. of init: file <at> is created, and init returns 0 after the
\* last; or goto out<at + 1> with the error.
device_create_file(m) ==
    /\ mod[m].pc = "create"
    /\ \E ok \in BOOLEAN :
          mod' = [mod EXCEPT ![m] =
                    IF ok
                    THEN [@ EXCEPT !.files = @ \cup {mod[m].at},
                                   !.made = Append(@, mod[m].at),
                                   !.pc = IF mod[m].at = NumFiles(m)
                                          THEN "loaded" ELSE "create",
                                   !.at = IF mod[m].at = NumFiles(m)
                                          THEN 0 ELSE mod[m].at + 1]
                    ELSE [@ EXCEPT !.stat = -ENOMEM, !.pc = "out",
                                   !.at = mod[m].at + 1]]
    /\ UNCHANGED <<mtx, gxlated_addr, config_x86, call, stored, dbgvars>>

\* The labels of init, falling through: out4/out3 remove a file, out2
\* unregisters the device, out1 returns stat.
init_out(m) ==
    /\ mod[m].pc = "out"
    /\ mod' = [mod EXCEPT ![m] =
                 IF mod[m].at = 1 THEN [@ EXCEPT !.pc = "failed", !.at = 0]
                 ELSE IF mod[m].at = 2
                 THEN [platform_device_unregister(@) EXCEPT !.at = 1]
                 ELSE [device_remove_file(@, OutRemoves(m, mod[m].at))
                          EXCEPT !.at = mod[m].at - 1]]
    /\ UNCHANGED <<mtx, gxlated_addr, config_x86, call, stored, dbgvars>>

\* rmmod: cleanup starts.
module_exit(m) ==
    /\ mod[m].pc = "loaded"
    /\ mod' = [mod EXCEPT ![m].pc = "cleanup", ![m].at = 1, ![m].log = <<>>]
    /\ UNCHANGED <<mtx, gxlated_addr, config_x86, call, stored, dbgvars>>

\* The statements of cleanup: the files are removed, then the device is
\* unregistered.
module_cleanup(m) ==
    /\ mod[m].pc = "cleanup"
    /\ mod' = [mod EXCEPT ![m] =
                 IF mod[m].at <= Len(CleanupOrder(m))
                 THEN [device_remove_file(@, CleanupOrder(m)[mod[m].at])
                          EXCEPT !.at = mod[m].at + 1]
                 ELSE [platform_device_unregister(@)
                          EXCEPT !.pc = "unloaded", !.at = 0]]
    /\ UNCHANGED <<mtx, gxlated_addr, config_x86, call, stored, dbgvars>>

Init ==
    /\ mtx = [m \in {"mtx1", "mtx2", "mtx"} |-> 0]
    /\ gxlated_addr = [f \in Files |-> 0]
    /\ config_x86 \in BOOLEAN
    /\ call = [p \in Callers |-> Idle]
    /\ stored = [f \in Files |-> -1]
    /\ mod = [m \in Modules |-> Loaded(m)]
    /\ debug_level = 0
    /\ prev_dbglevel = [p \in Callers |-> 0]

Enter(p, file, op, data, keep) ==
    call' = [call EXCEPT ![p] =
        [pc |-> "lock", file |-> file, op |-> op, data |-> data,
         ret |-> 0, text |-> <<>>, idx |-> 0,
         h |-> IF keep THEN Hist(call[p], file, op, data) ELSE Dropped]]

\* A read(2) of a file reaches its show callback.
sysfs_read(p, file, keep) ==
    /\ mod["sysfs_addrxlate"].pc = "loaded"
    /\ call[p].pc \in {"idle", "ret"}
    /\ Enter(p, file, "show", <<>>, keep)
    /\ UNCHANGED <<mtx, gxlated_addr, config_x86, stored, mod, dbgvars>>

\* A write(2) of the bytes data reaches the file's store callback.
sysfs_write(p, file, data, keep) ==
    /\ mod["sysfs_addrxlate"].pc = "loaded"
    /\ call[p].pc \in {"idle", "ret"}
    /\ Enter(p, file, "store", data, keep)
    /\ UNCHANGED <<mtx, gxlated_addr, config_x86, stored, mod, dbgvars>>

\* A lock taken whether free or not.
mutex_lock_unchecked(p) ==
    /\ call[p].pc = "lock"
    /\ mtx' = [mtx EXCEPT ![MutexOf(call[p].file)] = p]
    /\ call' = [call EXCEPT ![p].pc = "cs"]
    /\ UNCHANGED <<gxlated_addr, config_x86, stored, mod, dbgvars>>

\* mutex_lock_interruptible returns 0: the mutex was free and is now held.
mutex_lock_interruptible(p) ==
    /\ call[p].pc = "lock"
    /\ mtx[MutexOf(call[p].file)] = 0
    /\ mtx' = [mtx EXCEPT ![MutexOf(call[p].file)] = p]
    /\ call' = [call EXCEPT ![p].pc = "cs"]
    /\ UNCHANGED <<gxlated_addr, config_x86, stored, mod, dbgvars>>

\* An interrupted wait that comes back owning the mutex.
mutex_lock_interrupted_owning(p) ==
    /\ call[p].pc = "lock"
    /\ mtx[MutexOf(call[p].file)] # 0
    /\ mtx' = [mtx EXCEPT ![MutexOf(call[p].file)] = p]
    /\ call' = [call EXCEPT ![p].pc = "ret", ![p].ret = -ERESTARTSYS]
    /\ UNCHANGED <<gxlated_addr, config_x86, stored, mod, dbgvars>>

\* mutex_lock_interruptible returns nonzero: a signal arrived while the
\* caller slept on the held mutex; the callback returns -ERESTARTSYS.
mutex_lock_interrupted(p) ==
    /\ call[p].pc = "lock"
    /\ mtx[MutexOf(call[p].file)] # 0
    /\ call' = [call EXCEPT ![p].pc = "ret", ![p].ret = -ERESTARTSYS]
    /\ UNCHANGED <<mtx, gxlated_addr, config_x86, stored, mod, dbgvars>>

\* A show that clears the cached address once it has formatted it.
ShowBody_clearing(p, file, m) ==
    \E r \in {snprintf(ADDR_MAXLEN, gxlated_addr[file])} :
       /\ call' = [call EXCEPT ![p].pc = "ret", ![p].ret = r.n,
                               ![p].text = r.text]
       /\ mtx' = [mtx EXCEPT ![m] = 0]
       /\ gxlated_addr' = [gxlated_addr EXCEPT ![file] = 0]
       /\ UNCHANGED <<config_x86, stored, mod, dbgvars>>

\* The body of a show callback: it formats the cache of file and releases
\* the mutex m.
ShowBody(p, file, m) ==
    \E r \in {snprintf(ADDR_MAXLEN, gxlated_addr[file])} :
       /\ call' = [call EXCEPT ![p].pc = "ret", ![p].ret = r.n,
                               ![p].text = r.text]
       /\ mtx' = [mtx EXCEPT ![m] = 0]
       /\ UNCHANGED <<gxlated_addr, config_x86, stored, mod, dbgvars>>

\* The body of a store callback with outcome o: it writes the cache of file
\* and releases the mutex m, each if o says so.
StoreBody(p, file, m, o) ==
    /\ gxlated_addr' = IF o.write THEN [gxlated_addr EXCEPT ![file] = o.val]
                       ELSE gxlated_addr
    /\ stored' = IF o.write THEN [stored EXCEPT ![file] = o.addr] ELSE stored
    /\ mtx' = IF o.unlock THEN [mtx EXCEPT ![m] = 0] ELSE mtx
    /\ call' = [call EXCEPT ![p].pc = "ret", ![p].ret = o.ret,
                            ![p].idx = o.idx]
    /\ UNCHANGED <<config_x86, mod, dbgvars>>

addrxlate_pa2kva_show(p) ==
    /\ call[p].pc = "cs" /\ call[p].op = "show" /\ call[p].file = "pa2kva"
    /\ ShowBody(p, "pa2kva", "mtx2")

\* A store that runs its body without taking mtx2.
addrxlate_pa2kva_store_unlocked(p) ==
    /\ call[p].pc = "lock" /\ call[p].op = "store" /\ call[p].file = "pa2kva"
    /\ \E tail \in StackTails(call[p].data) :
          \E o \in {pa2kva_store_body(call[p].data, tail)} :
              StoreBody(p, "pa2kva", "mtx2", [o EXCEPT !.unlock = FALSE])

addrxlate_pa2kva_store(p) ==
    /\ call[p].pc = "cs" /\ call[p].op = "store" /\ call[p].file = "pa2kva"
    /\ \E tail \in StackTails(call[p].data) :
          \E o \in {pa2kva_store_body(call[p].data, tail)} :
              StoreBody(p, "pa2kva", "mtx2", o)

addrxlate_kva2pa_show(p) ==
    /\ call[p].pc = "cs" /\ call[p].op = "show" /\ call[p].file = "kva2pa"
    /\ ShowBody(p, "kva2pa", "mtx1")

addrxlate_kva2pa_store(p) ==
    /\ call[p].pc = "cs" /\ call[p].op = "store" /\ call[p].file = "kva2pa"
    /\ \E tail \in StackTails(call[p].data) :
          \E o \in {kva2pa_store_body(call[p].data, tail, config_x86)} :
              StoreBody(p, "kva2pa", "mtx1", o)

\* ------------------------------------- sysfs_simple_intf: debug_level
\* A read(2) of llkdsysfs_debug_level reaches its show callback.
debug_level_read(p) ==
    /\ mod["sysfs_simple_intf"].pc = "loaded"
    /\ call[p].pc \in {"idle", "ret"}
    /\ Enter(p, "debug_level", "show", <<>>, FALSE)
    /\ UNCHANGED <<mtx, gxlated_addr, config_x86, stored, mod, dbgvars>>

\* A write(2) of the bytes data reaches its store callback.
debug_level_write(p, data) ==
    /\ mod["sysfs_simple_intf"].pc = "loaded"
    /\ call[p].pc \in {"idle", "ret"}
    /\ Enter(p, "debug_level", "store", data, FALSE)
    /\ UNCHANGED <<mtx, gxlated_addr, config_x86, stored, mod, dbgvars>>

\* llkdsysfs_debug_level_show once it holds mtx: it formats debug_level and
\* releases mtx.
llkdsysfs_debug_level_show(p) ==
    /\ call[p].pc = "cs" /\ call[p].op = "show"
    /\ call[p].file = "debug_level"
    /\ \E r \in {snprintf_d(DBG_SHOW_SIZE, debug_level)} :
          call' = [call EXCEPT ![p].pc = "ret", ![p].ret = r.n,
                                  ![p].text = r.text]
    /\ mtx' = [mtx EXCEPT !["mtx"] = 0]
    /\ UNCHANGED <<gxlated_addr, config_x86, stored, mod, dbgvars>>

\* What kstrtoint makes of a write, after the check of its length.
debug_level_parse(data) ==
    IF Len(data) = 0 \/ Len(data) > DBG_COUNT_MAX
    THEN [err |-> -EINVAL, val |-> 0]
    ELSE kstrtoint(CStr(data))

\* A store that returns a failure of kstrtoint without releasing mtx.
llkdsysfs_debug_level_store_leaky(p) ==
    /\ call[p].pc = "cs" /\ call[p].op = "store"
    /\ call[p].file = "debug_level"
    /\ \E r \in {debug_level_parse(call[p].data)} :
          IF r.err # 0
          THEN /\ call' = [call EXCEPT ![p].pc = "ret", ![p].ret = r.err]
               /\ mtx' = IF Len(call[p].data) \in 1..DBG_COUNT_MAX THEN mtx
                         ELSE [mtx EXCEPT !["mtx"] = 0]
               /\ UNCHANGED dbgvars
          ELSE /\ call' = [call EXCEPT ![p].pc = "range"]
               /\ mtx' = mtx
               /\ prev_dbglevel' = [prev_dbglevel EXCEPT ![p] = debug_level]
               /\ debug_level' = r.val
    /\ UNCHANGED <<gxlated_addr, config_x86, stored, mod>>

\* llkdsysfs_debug_level_store once it holds mtx, up to kstrtoint: a bad
\* length or a text kstrtoint refuses goes to out (unlock, return the error)
\* with debug_level as it was; a text kstrtoint accepts is written to
\* debug_level, the level before it is kept in prev_dbglevel, and the
\* callback goes on holding mtx.
llkdsysfs_debug_level_store(p) ==
    /\ call[p].pc = "cs" /\ call[p].op = "store"
    /\ call[p].file = "debug_level"
    /\ \E r \in {debug_level_parse(call[p].data)} :
          IF r.err # 0
          THEN /\ call' = [call EXCEPT ![p].pc = "ret", ![p].ret = r.err]
               /\ mtx' = [mtx EXCEPT !["mtx"] = 0]
               /\ UNCHANGED dbgvars
          ELSE /\ call' = [call EXCEPT ![p].pc = "range"]
               /\ mtx' = mtx
               /\ prev_dbglevel' = [prev_dbglevel EXCEPT ![p] = debug_level]
               /\ debug_level' = r.val
    /\ UNCHANGED <<gxlated_addr, config_x86, stored, mod>>

\* A range check that refuses the value and leaves it in debug_level.
llkdsysfs_debug_level_store_range_keeping(p) ==
    /\ call[p].pc = "range"
    /\ IF debug_level < DEBUG_LEVEL_MIN \/ debug_level > DEBUG_LEVEL_MAX
       THEN /\ debug_level' = debug_level
            /\ call' = [call EXCEPT ![p].pc = "ret", ![p].ret = -EFAULT]
       ELSE /\ debug_level' = debug_level
            /\ call' = [call EXCEPT ![p].pc = "ret",
                                    ![p].ret = Len(call[p].data)]
    /\ mtx' = [mtx EXCEPT !["mtx"] = 0]
    /\ prev_dbglevel' = [prev_dbglevel EXCEPT ![p] = 0]
    /\ UNCHANGED <<gxlated_addr, config_x86, stored, mod>>

\* The rest of llkdsysfs_debug_level_store: a value outside
\* [DEBUG_LEVEL_MIN, DEBUG_LEVEL_MAX] is replaced by prev_dbglevel and the
\* callback returns -EFAULT, any other stays and it returns count; mtx is
\* released either way.
llkdsysfs_debug_level_store_range(p) ==
    /\ call[p].pc = "range"
    /\ IF debug_level < DEBUG_LEVEL_MIN \/ debug_level > DEBUG_LEVEL_MAX
       THEN /\ debug_level' = prev_dbglevel[p]
            /\ call' = [call EXCEPT ![p].pc = "ret", ![p].ret = -EFAULT]
       ELSE /\ debug_level' = debug_level
            /\ call' = [call EXCEPT ![p].pc = "ret",
                                    ![p].ret = Len(call[p].data)]
    /\ mtx' = [mtx EXCEPT !["mtx"] = 0]
    /\ prev_dbglevel' = [prev_dbglevel EXCEPT ![p] = 0]
    /\ UNCHANGED <<gxlated_addr, config_x86, stored, mod>>

\* ---------------------------------------------------------------- inputs
\* The text of an address without the newline.
NoNL(v) == <<"0", "x">> \o FMTSPC(v)

\* An address written with leading zeros so that the text has n bytes, the
\* newline included.
Fill(v, n) == <<"0", "x">> \o Zeros(n - 3 - Len(HexOf(v))) \o HexOf(v) \o <<NL>>

\* The text the caller last read, to write it back.
LastRead(p) ==
    IF call[p].pc = "ret" /\ call[p].op = "show" /\ call[p].ret >= 0
    THEN {call[p].text} ELSE {}

\* Writes of concurrent callers: a lowmem kva, a low pa, text that is no
\* number.  Both builds take the same paths on these.
ConcInputs == {Txt(PAGE_OFFSET + 1), Txt(0), <<"z", NL>>}

\* Writes of the single caller: the addresses at and around both bounds,
\* with and without newline, empty and unparsable text, an octal text, a
\* value wider than addr_t, and texts of ADDR_MAXLEN and ADDR_MAXLEN + 1
\* bytes.
SeqAddrs == {0, 1, PAGE_OFFSET - 1, PAGE_OFFSET, PAGE_OFFSET + 1,
             PAGE_OFFSET + 26, high_memory - 1, high_memory, high_memory + 1}
SeqInputs ==
    {Txt(v) : v \in SeqAddrs}
    \cup {NoNL(PAGE_OFFSET), NoNL(1)}
    \cup {<<>>, <<NUL>>, <<NL>>, <<"z", "z", NL>>, <<"0", "1", "0", NL>>}
    \cup {<<"0", "x", "1">> \o Zeros(HexDigits) \o <<NL>>}
    \cup {Fill(PAGE_OFFSET, ADDR_MAXLEN), Fill(1, ADDR_MAXLEN + 1)}

\* ------------------------------------------------------- specifications
Handler(p) ==
    \/ mutex_lock_interruptible(p)
    \/ addrxlate_pa2kva_show(p)
    \/ addrxlate_pa2kva_store(p)
    \/ addrxlate_kva2pa_show(p)
    \/ addrxlate_kva2pa_store(p)

\* Concurrent callers, on the CONFIG_X86 build.
ConcInit == Init /\ config_x86

Next ==
    \E p \in Callers :
        \/ \E file \in Files : sysfs_read(p, file, FALSE)
        \/ \E file \in Files : \E data \in ConcInputs :
              sysfs_write(p, file, data, FALSE)
        \/ Handler(p)
        \/ mutex_lock_interrupted(p)

Spec == ConcInit /\ [][Next]_vars

\* One caller, one call at a time, the wider set of writes.
SeqNext ==
    \/ \E file \in Files : sysfs_read(1, file, TRUE)
    \/ \E file \in Files : \E data \in SeqInputs \cup LastRead(1) :
          sysfs_write(1, file, data, TRUE)
    \/ Handler(1)
    \/ mutex_lock_interrupted(1)

SeqSpec == Init /\ [][SeqNext]_vars

\* Concurrent callers that no signal interrupts, under a fair scheduler: a
\* caller that can run its body does, and a mutex that keeps becoming free
\* is eventually given to each waiter.
FairNext ==
    \E p \in Callers :
        \/ \E file \in Files : sysfs_read(p, file, FALSE)
        \/ \E file \in Files : \E data \in ConcInputs :
              sysfs_write(p, file, data, FALSE)
        \/ Handler(p)

FairSpec ==
    /\ ConcInit /\ [][FairNext]_vars
    /\ \A p \in Callers : SF_vars(Handler(p))

\* The modules being loaded and unloaded, each step of init free to fail.
LifeInit ==
    /\ mtx = [m \in {"mtx1", "mtx2", "mtx"} |-> 0]
    /\ gxlated_addr = [f \in Files |-> 0]
    /\ config_x86 \in BOOLEAN
    /\ call = [p \in Callers |-> Idle]
    /\ stored = [f \in Files |-> -1]
    /\ mod = [m \in Modules |-> Unloaded]
    /\ debug_level = 0
    /\ prev_dbglevel = [p \in Callers |-> 0]

LifeNext ==
    \E m \in Modules :
        \/ module_init(m)
        \/ platform_device_register_simple(m)
        \/ device_create_file(m)
        \/ init_out(m)
        \/ module_exit(m)
        \/ module_cleanup(m)

LifeSpec == LifeInit /\ [][LifeNext]_vars

\* The text of a level as user space writes it.
DecTxt(v) == snprintf_d(DBG_SHOW_SIZE, v).text

\* What the callers write to debug_level: the levels, in decimal and in hex;
\* values on either side of the range and one past int; a text that is no
\* number; nothing; one byte more than the store accepts.
DbgInputs ==
    {DecTxt(v) : v \in (DEBUG_LEVEL_MIN + 1)..(DEBUG_LEVEL_MAX + 1)}
    \cup {DecTxt(DEBUG_LEVEL_MIN - 1), DecTxt(INT_MAX + 1),
          <<"0", "x", "2", NL>>, <<"z", NL>>, <<>>,
          Zeros(DBG_COUNT_MAX) \o <<NL>>}

\* Concurrent callers of the callbacks of debug_level.
DbgNext ==
    \E p \in Callers :
        \/ debug_level_read(p)
        \/ \E data \in DbgInputs : debug_level_write(p, data)
        \/ mutex_lock_interruptible(p)
        \/ mutex_lock_interrupted(p)
        \/ llkdsysfs_debug_level_show(p)
        \/ llkdsysfs_debug_level_store(p)
        \/ llkdsysfs_debug_level_store_range(p)

DbgSpec == ConcInit /\ [][DbgNext]_vars

\* ============================================================ properties
\* The lock of each channel (spec section 3: each channel owns its lock).
ChannelLock(file) == IF file = "kva2pa" THEN "mtx1" ELSE "mtx2"
OtherFile(file) == IF file = "kva2pa" THEN "pa2kva" ELSE "kva2pa"

\* t is 0x, HexDigits hex digits and a newline, and the digits are v's.
IsTextOf(t, v) == AddrOfText(t) = v

\* Callers holding the lock of the file and not yet returned.
InCS(file) == {p \in Callers : call[p].pc = "cs" /\ call[p].file = file}

\* C1: if a store to a channel is rejected (for its length, its text, its
\* range, or by an interrupted wait) while the channel caches X, a show of the
\* same channel made right after it returns: it is not kept waiting for the
\* lock, and what it returns is the text of X.
C1_ShowAfterRejectedStore ==
    \A p \in Callers :
        (call[p].op = "show" /\ call[p].h.after) =>
            /\ call[p].pc = "lock" => mtx[ChannelLock(call[p].file)] = 0
            /\ call[p].pc = "ret" =>
                  /\ call[p].ret = Len(call[p].text)
                  /\ IsTextOf(call[p].text, call[p].h.X)

\* C2: every call that took a channel's lock has released it when it
\* returns, whatever the outcome: whenever no caller is between taking the
\* lock of a channel and returning, that lock is free.
C2_LockFreeWhenNoCallHoldsIt ==
    \A file \in Files : InCS(file) = {} => mtx[ChannelLock(file)] = 0

\* C3: with no caller interrupted and a fair scheduler, every show or store
\* that was invoked returns, after any history of earlier calls.
C3_EveryCallReturns ==
    \A p \in Callers : (call[p].pc = "lock") ~> (call[p].pc = "ret")

\* A returned call was a store that succeeded.
Succeeded(c) == c.op = "store" /\ c.ret = Len(c.data) /\ c.ret > 0

\* C4: a store that returns an error (and a show) leaves the cached address of
\* its channel as it was when the call was made; only a store that returns
\* success changes it.
C4_RejectedStoreKeepsCache ==
    \A p \in Callers :
        (call[p].pc = "ret" /\ ~Succeeded(call[p])) =>
            gxlated_addr[call[p].file] = call[p].h.pre

\* A store was refused as out of range while the channel cached a nonzero
\* address.
C4_Witness ==
    \E p \in Callers :
        /\ call[p].pc = "ret" /\ call[p].op = "store"
        /\ call[p].ret = -EFAULT /\ call[p].h.pre # 0
        /\ gxlated_addr[call[p].file] = call[p].h.pre

\* C5: each cached address is zero or the translation of an input that is
\* valid as specified: for kva_to_pa a lowmem address (at or above the base,
\* below the top of the mapping), for pa_to_kva an address below the base.
C5_CacheIsTranslationOfValidInput ==
    /\ \/ gxlated_addr["kva2pa"] = 0
       \/ \E kva \in Lowmem : gxlated_addr["kva2pa"] = virt_to_phys(kva)
    /\ \/ gxlated_addr["pa2kva"] = 0
       \/ \E pa \in 0..(PAGE_OFFSET - 1) :
             gxlated_addr["pa2kva"] = phys_to_virt(pa)

\* C6: at most one caller at a time is between taking and releasing the lock
\* of a channel, and it is the caller the lock records; the cached address of
\* a channel is written, and read by a show, only in a step of the caller
\* holding the channel's lock; what a show returns is the text of the whole
\* value cached at that step (the value before or after any racing write).
C6_Step ==
    /\ \A p \in Callers :
          call'[p].pc = "cs" =>
              /\ mtx'[ChannelLock(call'[p].file)] = p
              /\ \A q \in Callers \ {p} :
                    call'[q].pc = "cs" => call'[q].file # call'[p].file
    /\ \A file \in Files :
          gxlated_addr'[file] # gxlated_addr[file] =>
              \E p \in InCS(file) :
                  /\ mtx[ChannelLock(file)] = p
                  /\ call[p].op = "store" /\ call'[p].pc = "ret"
    /\ \A p \in Callers :
          (call[p].op = "show" /\ call[p].pc # "ret" /\ call'[p].pc = "ret"
           /\ call'[p].ret >= 0) =>
              /\ p \in InCS(call[p].file)
              /\ mtx[ChannelLock(call[p].file)] = p
              /\ IsTextOf(call'[p].text, gxlated_addr[call[p].file])

C6_MutualExclusion == [][C6_Step]_vars

\* A show waits for the lock of a channel while a store holds it.
C6_Witness ==
    \E p, q \in Callers :
        /\ p # q /\ call[p].file = call[q].file
        /\ call[p].op = "store" /\ call[p].pc = "cs"
        /\ call[q].op = "show" /\ call[q].pc = "lock"

\* C7: a step of a call on one channel leaves the cached address and the lock
\* of the other channel unchanged, and a caller waits for, takes, and gives
\* up waiting for, the lock of its own channel only: it can take the lock
\* whenever that lock is free, whatever the state of the other channel.
C7_Step ==
    \A p \in Callers :
        call'[p] # call[p] =>
            /\ gxlated_addr'[OtherFile(call'[p].file)]
                  = gxlated_addr[OtherFile(call'[p].file)]
            /\ mtx'[ChannelLock(OtherFile(call'[p].file))]
                  = mtx[ChannelLock(OtherFile(call'[p].file))]
            /\ (call[p].pc = "lock" /\ call'[p].pc = "ret") =>
                  mtx[ChannelLock(call[p].file)] # 0

C7_NeverWaitsForOther ==
    \A p \in Callers :
        (call[p].pc = "lock" /\ mtx[ChannelLock(call[p].file)] = 0) =>
            ENABLED mutex_lock_interruptible(p)

C7_ChannelsIndependent == [](C7_NeverWaitsForOther) /\ [][C7_Step]_vars

\* A store to pa_to_kva succeeded after a store to kva_to_pa was refused as
\* out of range (and left mtx1 held).
C7_Witness ==
    \E p, q \in Callers :
        /\ call[p].pc = "ret" /\ call[p].op = "store"
        /\ call[p].file = "kva2pa" /\ call[p].ret = -EFAULT
        /\ mtx["mtx1"] = p
        /\ call[q].pc = "ret" /\ call[q].file = "pa2kva"
        /\ Succeeded(call[q]) /\ stored["pa2kva"] = 0

\* The translation of a channel.
Translate(file, a) ==
    IF file = "kva2pa" THEN virt_to_phys(a) ELSE phys_to_virt(a)

\* C8: a show that takes the lock after a successful store of address a
\* released it, with no successful store in between, returns 0x, the
\* zero-padded hex digits of the translation of a, and a newline; a show
\* before any successful store returns the text of zero.
C8_Step ==
    \A p \in Callers :
        (call[p].op = "show" /\ call[p].pc = "cs" /\ call'[p].pc = "ret") =>
            /\ call'[p].ret = Len(call'[p].text)
            /\ IsTextOf(call'[p].text,
                        IF stored[call[p].file] = -1 THEN 0
                        ELSE Translate(call[p].file, stored[call[p].file]))

C8_ShowSeesLastStore == [][C8_Step]_vars

\* Physical address 0 was stored to pa_to_kva and a show returned the text
\* of the lowmem base.
C8_Witness ==
    \E p \in Callers :
        /\ call[p].pc = "ret" /\ call[p].op = "show" /\ call[p].file = "pa2kva"
        /\ stored["pa2kva"] = 0
        /\ call[p].text = <<"0", "x">> \o FMTSPC(PAGE_OFFSET) \o <<NL>>

\* C9: for a lowmem address v, a store of the text of v to kva_to_pa is
\* accepted and the show after it returns the text of virt_to_phys(v);
\* storing that very text to pa_to_kva is accepted and the show after it
\* returns the text of v.  (Of calls that ran: one that gave up waiting for
\* the lock has stored or shown nothing.)
C9_RoundTrip ==
    \A p \in Callers :
        (call[p].pc = "ret" /\ call[p].ret # -ERESTARTSYS) =>
            /\ call[p].h.stage \in {1, 3} => Succeeded(call[p])
            /\ call[p].h.stage = 2 =>
                  IsTextOf(call[p].text, virt_to_phys(call[p].h.v))
            /\ call[p].h.stage = 4 => IsTextOf(call[p].text, call[p].h.v)

\* The chain was run to its end from the last address of lowmem.
C9_Witness ==
    \E p \in Callers :
        /\ call[p].pc = "ret" /\ call[p].h.stage = 4 /\ call[p].ret > 0
        /\ call[p].h.v = high_memory - 1

\* C10: a store to pa_to_kva of an address equal to the lowmem base, or
\* larger, is refused as out of range and is not translated or cached.
C10_PaAtOrAboveBaseRefused ==
    \A p \in Callers :
        (/\ call[p].pc = "ret" /\ call[p].op = "store"
         /\ call[p].file = "pa2kva" /\ call[p].ret # -ERESTARTSYS
         /\ AddrOfText(call[p].data) >= PAGE_OFFSET) =>
            /\ call[p].ret = -EFAULT
            /\ gxlated_addr["pa2kva"] = call[p].h.pre

\* C11: a store to kva_to_pa of the lowmem base itself is accepted and its
\* translation cached; a store of the address one below the base is refused
\* as out of range.
C11_KvaLowerBoundary ==
    \A p \in Callers :
        (/\ call[p].pc = "ret" /\ call[p].op = "store"
         /\ call[p].file = "kva2pa" /\ call[p].ret # -ERESTARTSYS) =>
            /\ AddrOfText(call[p].data) = PAGE_OFFSET =>
                  /\ Succeeded(call[p])
                  /\ stored["kva2pa"] = PAGE_OFFSET
                  /\ gxlated_addr["kva2pa"] = virt_to_phys(PAGE_OFFSET)
            /\ AddrOfText(call[p].data) = PAGE_OFFSET - 1 =>
                  /\ call[p].ret = -EFAULT
                  /\ gxlated_addr["kva2pa"] = call[p].h.pre

\* The base was stored to kva_to_pa over a cached address that was not zero.
C11_Witness ==
    \E p \in Callers :
        /\ call[p].pc = "ret" /\ call[p].op = "store"
        /\ call[p].file = "kva2pa" /\ Succeeded(call[p])
        /\ AddrOfText(call[p].data) = PAGE_OFFSET
        /\ call[p].h.pre # 0 /\ gxlated_addr["kva2pa"] = 0

\* C12: on the build without CONFIG_X86, a store to kva_to_pa succeeds only
\* for an address at or above the lowmem base and below high_memory; a store
\* of high_memory itself is refused as out of range and the cached address
\* stays as it was.
C12_KvaUpperBoundGeneric ==
    \A p \in Callers :
        (/\ ~config_x86
         /\ call[p].pc = "ret" /\ call[p].op = "store"
         /\ call[p].file = "kva2pa" /\ call[p].ret # -ERESTARTSYS) =>
            /\ Succeeded(call[p]) => stored["kva2pa"] \in Lowmem
            /\ AddrOfText(call[p].data) = high_memory =>
                  /\ call[p].ret = -EFAULT
                  /\ gxlated_addr["kva2pa"] = call[p].h.pre

\* The address a store of data to file should take it for: data is the text
\* of an address the channel accepts, with or without the newline; -1 if
\* data is no such text.
ValidAddrOf(file, data) ==
    LET a == IF AddrOfText(data) >= 0 THEN AddrOfText(data)
             ELSE AddrOfText(data \o <<NL>>)
    IN IF file = "kva2pa" /\ a \in Lowmem THEN a
       ELSE IF file = "pa2kva" /\ a \in 0..(PAGE_OFFSET - 1) THEN a
       ELSE -1

\* C13: a store removes a trailing newline only if there is one: the text of
\* a valid address is parsed as that address whether it is written with the
\* newline or without it.
C13_NewlineOptional ==
    \A p \in Callers :
        (/\ call[p].pc = "ret" /\ call[p].op = "store"
         /\ call[p].ret # -ERESTARTSYS
         /\ ValidAddrOf(call[p].file, call[p].data) >= 0) =>
            /\ Succeeded(call[p])
            /\ stored[call[p].file] = ValidAddrOf(call[p].file, call[p].data)

\* C14: a store of no byte, or of more than ADDR_MAXLEN bytes, returns
\* -EINVAL whatever the bytes are; a store of 1 to ADDR_MAXLEN bytes that are
\* the text of a number is not refused with -EINVAL, whatever its length.
C14_LengthValidation ==
    \A p \in Callers :
        (/\ call[p].pc = "ret" /\ call[p].op = "store"
         /\ call[p].ret # -ERESTARTSYS) =>
            /\ count_invalid(Len(call[p].data)) =>
                  /\ call[p].ret = -EINVAL
                  /\ gxlated_addr[call[p].file] = call[p].h.pre
            /\ (/\ ~count_invalid(Len(call[p].data))
                /\ call[p].data[Len(call[p].data)] = NL
                /\ kstrtoull(call[p].data).err = 0) =>
                  call[p].ret # -EINVAL

\* C19: whatever is written (no byte, an empty string, ADDR_MAXLEN bytes or
\* more with no zero byte among them), the index at which the store
\* overwrites the last character of s_addr is within 0..ADDR_MAXLEN-1.
C19_StripIndexInBuffer ==
    \A p \in Callers :
        (/\ call[p].pc = "ret" /\ call[p].op = "store"
         /\ call[p].ret # -ERESTARTSYS) =>
            call[p].idx \in 0..(ADDR_MAXLEN - 1)

\* C15: a call that returns -ERESTARTSYS was waiting for the lock of its
\* channel, which was held; it returns without having taken the lock (the
\* holder stays who it was) and with every cached address as it was; and no
\* call that took the lock returns -ERESTARTSYS.
C15_Step ==
    \A p \in Callers :
        (call[p].pc # "ret" /\ call'[p].pc = "ret") =>
            IF call[p].pc = "lock"
            THEN /\ call'[p].ret = -ERESTARTSYS
                 /\ mtx[ChannelLock(call[p].file)] # 0
                 /\ mtx' = mtx
                 /\ gxlated_addr' = gxlated_addr
            ELSE call'[p].ret # -ERESTARTSYS

C15_InterruptedWait == [][C15_Step]_vars

\* A store gave up waiting while another caller was inside the channel.
C15_Witness ==
    \E p, q \in Callers :
        /\ call[p].pc = "ret" /\ call[p].op = "store"
        /\ call[p].ret = -ERESTARTSYS
        /\ call[q].pc = "cs" /\ call[q].file = call[p].file

\* The kind of a newline-terminated write shorter than ADDR_MAXLEN, by what
\* it says: "parse" (no unsigned integer under the base-0 rules), "overflow"
\* (an integer wider than addr_t), "range" (an address well outside what the
\* file accepts), "other" for the rest.
InputKind(file, data) ==
    IF ~(Len(data) \in 1..(ADDR_MAXLEN - 1) /\ data[Len(data)] = NL)
    THEN "other"
    ELSE IF kstrtoull(data).err = -EINVAL THEN "parse"
    ELSE IF kstrtoull(data).err = -ERANGE THEN "overflow"
    ELSE IF file = "kva2pa"
            /\ kstrtoull(data).val \notin PAGE_OFFSET..high_memory
    THEN "range"
    ELSE IF file = "pa2kva" /\ kstrtoull(data).val > PAGE_OFFSET
    THEN "range"
    ELSE "other"

\* The statuses of the calls: those in statuses and no other; -EINVAL for a
\* bad length and for text that is no number, ovf for a number wider than
\* addr_t, -EFAULT for an address out of range, -ERESTARTSYS only for a wait
\* on a held lock.
StatusMapping(ovf, statuses) ==
    \A p \in Callers :
        call[p].pc = "ret" =>
            /\ call[p].ret < 0 => call[p].ret \in statuses
            /\ call[p].ret = -ERESTARTSYS =>
                  mtx[ChannelLock(call[p].file)] # 0
            /\ (call[p].op = "show" /\ call[p].ret < 0) =>
                  call[p].ret = -ERESTARTSYS
            /\ (call[p].op = "store" /\ call[p].ret # -ERESTARTSYS) =>
                  /\ count_invalid(Len(call[p].data)) => call[p].ret = -EINVAL
                  /\ InputKind(call[p].file, call[p].data) = "parse" =>
                        call[p].ret = -EINVAL
                  /\ InputKind(call[p].file, call[p].data) = "overflow" =>
                        call[p].ret = ovf
                  /\ InputKind(call[p].file, call[p].data) = "range" =>
                        call[p].ret = -EFAULT

\* C16 as stated: length and parse rejections, overflow included, return
\* -EINVAL; range rejections -EFAULT; interrupted waits -ERESTARTSYS; no
\* other error status is returned.
C16_StatusMappingAsStated ==
    StatusMapping(-EINVAL, {-EINVAL, -EFAULT, -ERESTARTSYS})

\* C16 amended: as stated, except that a number wider than addr_t returns
\* -ERANGE, a fourth status.
C16_StatusMapping ==
    StatusMapping(-ERANGE, {-EINVAL, -ERANGE, -EFAULT, -ERESTARTSYS})

\* A store of a number wider than addr_t returned -ERANGE.
C16_Witness ==
    \E p \in Callers :
        /\ call[p].pc = "ret" /\ call[p].op = "store"
        /\ call[p].ret = -ERANGE
        /\ InputKind(call[p].file, call[p].data) = "overflow"

\* C17: a show leaves the cached address of its channel as it was, and
\* returns the same text as the show of that channel before it when no store
\* to the channel succeeded in between, whatever calls were made on the other
\* channel in between.
C17_ShowIdempotent ==
    \A p \in Callers :
        (call[p].pc = "ret" /\ call[p].op = "show" /\ call[p].ret >= 0) =>
            /\ gxlated_addr[call[p].file] = call[p].h.pre
            /\ call[p].h.shown[call[p].file] # <<>> =>
                  call[p].text = call[p].h.shown[call[p].file]

\* A show repeated the text of a nonzero address after the other channel was
\* shown too.
C17_Witness ==
    \E p \in Callers :
        /\ call[p].pc = "ret" /\ call[p].op = "show" /\ call[p].ret >= 0
        /\ call[p].h.shown[call[p].file] = call[p].text
        /\ call[p].h.shown[OtherFile(call[p].file)] # <<>>
        /\ AddrOfText(call[p].text) > 0

\* A store whose text is no number.
Unparsable(c) == c.op = "store" /\ c.data = <<"z", NL>>

\* C18 as stated: a store of invalid input returns its error without ever
\* taking or waiting for the lock of the channel: it is never delayed by a
\* holder of the lock and never returns -ERESTARTSYS.
C18_ValidatesBeforeLock ==
    \A p \in Callers :
        Unparsable(call[p]) =>
            /\ call[p].pc # "cs"
            /\ call[p].pc = "lock" => mtx[ChannelLock(call[p].file)] = 0
            /\ call[p].pc = "ret" => call[p].ret = -EINVAL

\* C18 amended: a store takes the lock of its channel first and checks the
\* length, the text and the range while it holds it: every store that returns
\* a validation error (-EINVAL, -ERANGE, -EFAULT) or success returns from
\* inside the lock, which it holds at that step.
C18_Step ==
    \A p \in Callers :
        (/\ call[p].op = "store" /\ call[p].pc # "ret" /\ call'[p].pc = "ret"
         /\ call'[p].ret # -ERESTARTSYS) =>
            /\ call[p].pc = "cs"
            /\ mtx[ChannelLock(call[p].file)] = p

C18_ValidatesUnderLock == [][C18_Step]_vars

\* A store of text that is no number was kept waiting by a holder of the lock
\* and gave up with -ERESTARTSYS.
C18_Witness ==
    \E p \in Callers :
        /\ Unparsable(call[p]) /\ call[p].pc = "ret"
        /\ call[p].ret = -ERESTARTSYS

RECURSIVE Reverse(_)
Reverse(q) == IF q = <<>> THEN <<>> ELSE Append(Reverse(Tail(q)), Head(q))

\* C20: when init has returned 0 the device and every file exist; when init
\* has returned an error nothing is left registered, and what had been
\* created was removed in the reverse order of its creation; when cleanup
\* has returned nothing is left and every file was removed before the device
\* was unregistered.
C20_LifecycleAllOrNothing ==
    \A m \in Modules :
        /\ mod[m].pc = "loaded" =>
              /\ mod[m].stat = 0 /\ mod[m].dev
              /\ mod[m].files = 1..NumFiles(m)
        /\ mod[m].pc = "failed" =>
              /\ mod[m].stat < 0
              /\ ~mod[m].dev /\ mod[m].files = {}
              /\ mod[m].log = Reverse(mod[m].made)
        /\ (mod[m].pc = "unloaded" /\ mod[m].made # <<>>) =>
              /\ ~mod[m].dev /\ mod[m].files = {}
              /\ mod[m].log = Reverse(mod[m].made)
              /\ Len(mod[m].log) = NumFiles(m) + 1

\* The init of sysfs_simple_intf failed at its third file and has returned,
\* the two files and the device removed in that order, while sysfs_addrxlate
\* was unloaded by its cleanup.
C20_Witness ==
    /\ mod["sysfs_simple_intf"].pc = "failed"
    /\ mod["sysfs_simple_intf"].log = <<2, 1, 0>>
    /\ mod["sysfs_addrxlate"].pc = "unloaded"
    /\ mod["sysfs_addrxlate"].log = <<2, 1, 0>>
\* ------------------------------------------------------------------ C21
\* The levels debug_level may hold.
DebugLevels == DEBUG_LEVEL_MIN..DEBUG_LEVEL_MAX

\* A caller is inside the given callback of debug_level at the given place.
DbgAt(p, op, pc) ==
    call[p].file = "debug_level" /\ call[p].op = op /\ call[p].pc = pc

\* C21: in every state in which mtx is free, debug_level is within
\* [DEBUG_LEVEL_MIN, DEBUG_LEVEL_MAX]; and every text a show of debug_level
\* has returned is that of a level within the range, with its length as the
\* return value.  The value a store writes before its range check is never
\* seen by a show.
C21_DebugLevelInRange ==
    /\ mtx["mtx"] = 0 => debug_level \in DebugLevels
    /\ \A p \in Callers :
          DbgAt(p, "show", "ret") /\ call[p].ret # -ERESTARTSYS
          => \E v \in DebugLevels :
                /\ call[p].text = snprintf_d(DBG_SHOW_SIZE, v).text
                /\ call[p].ret = Len(call[p].text)

\* A store holds mtx with a value outside the range in debug_level, after a
\* level other than the initial one was stored, while another caller's show
\* waits for mtx.
C21_Witness ==
    \E p, q \in Callers :
        /\ DbgAt(p, "store", "range")
        /\ debug_level \notin DebugLevels
        /\ prev_dbglevel[p] # 0
        /\ DbgAt(q, "show", "lock")

\* ------------------------------------------------------------------ C22
\* C22 for one step.  A store of debug_level that returns having held mtx
\* releases it.  When it returns an error, debug_level is afterwards what it
\* was when the store took mtx, and the error is -EINVAL for a bad length, the
\* error of kstrtoint for a text it refuses, -EFAULT for a value outside the
\* range.  When it returns success, the return value is the number of bytes
\* written and debug_level is the value of the text, a level within the
\* range.  A store that gives up waiting for mtx, and every show, leave
\* debug_level alone; and while a store holds mtx no step of another caller
\* changes debug_level.
C22_Step ==
    /\ \A p \in Callers :
          (call[p].file = "debug_level" /\ call[p].op = "store"
             /\ call[p].pc \in {"cs", "range"} /\ call'[p].pc = "ret")
          => LET before == IF call[p].pc = "cs" THEN debug_level
                           ELSE prev_dbglevel[p]
                 r      == debug_level_parse(call[p].data)
             IN /\ mtx["mtx"] = p /\ mtx'["mtx"] = 0
                /\ call'[p].ret < 0 => debug_level' = before
                /\ call'[p].ret < 0 <=>
                      (r.err # 0 \/ r.val \notin DebugLevels)
                /\ call'[p].ret < 0 =>
                      call'[p].ret = IF r.err # 0 THEN r.err ELSE -EFAULT
                /\ call'[p].ret >= 0 =>
                      /\ call'[p].ret = Len(call[p].data)
                      /\ debug_level' = r.val
                      /\ debug_level' \in DebugLevels
    /\ \A p \in Callers :
          (DbgAt(p, "store", "cs") /\ call'[p].pc = "range")
          => /\ prev_dbglevel'[p] = debug_level
             /\ mtx["mtx"] = p /\ mtx' = mtx
    /\ \A p \in Callers :
          (call[p].file = "debug_level" /\ call[p] # call'[p]
             /\ (call[p].pc = "lock" \/ call[p].op = "show"))
          => debug_level' = debug_level
    /\ debug_level' # debug_level
          => \E p \in Callers : mtx["mtx"] = p /\ call'[p] # call[p]

\* C22: every step of DbgSpec is as C22_Step says.
C22_FailedStoreKeepsLevel == [][C22_Step]_vars

\* A store of a value outside the range has returned -EFAULT with mtx free
\* and debug_level at a level stored before, not the initial one.
C22_Witness ==
    \E p \in Callers :
        /\ DbgAt(p, "store", "ret")
        /\ call[p].ret = -EFAULT
        /\ mtx["mtx"] = 0
        /\ debug_level \in DebugLevels \ {0}

====
